---- MODULE Spec2Model ----
(***************************************************************************)
(* Model of the Deep Research Assistant's research() tool                  *)
(* (src/agent/tools.py), its Query Client _do_internet_search, and the     *)
(* allow-list of tool calls emitted to the frontend (src/agent/main.py).   *)
(*                                                                         *)
(* Python values are modelled as follows:                                  *)
(*   - a dict is a TLA+ function; a missing key is a name outside DOMAIN;  *)
(*   - a url is a sequence (<<>> is the empty string ""); the urls of the  *)
(*     provider's answer to the n-th query of call c are <<c, n, i>>;      *)
(*   - a content string is modelled by its length, so that [:3000] is      *)
(*     Min(length, 3000);                                                  *)
(*   - an error message is a TLA+ string ("" is the empty message).        *)
(***************************************************************************)
EXTENDS Integers, Sequences, FiniteSets, TLC

\* ------------------------------------------------------------------ bounds
NCalls == 2          \* research() tool calls issued by the Coordinator
MaxSearches == 2     \* Query Client invocations over all nested runs
MaxResults == 2      \* entries in one provider answer

Calls == 1..NCalls

\* ------------------------------------------------------- program constants
ContentCap == 3000          \* [:3000]
DefaultMaxResults == 5      \* max_results: int = 5
MaxWorkers == 1             \* ThreadPoolExecutor(max_workers=1)

\* main.py: emit_tool_calls=[...]
emit_tool_calls == {"research", "write_todos", "write_file", "read_file", "edit_file"}

\* ------------------------------------------------------------ dict helpers
HasKey(d, k) == k \in DOMAIN d
Get(d, k, default) == IF k \in DOMAIN d THEN d[k] ELSE default
Min(a, b) == IF a < b THEN a ELSE b

RECURSIVE Flatten(_)
Flatten(ss) == IF ss = <<>> THEN <<>> ELSE Head(ss) \o Flatten(Tail(ss))

\* ----------------------------------------------------- the lookup provider
\* What TavilyClient(...).search(...) can do: raise, or answer with a dict.
\* An entry of "results" is a dict whose keys may be missing, whose content
\* may be None (length -1 stands for None), or not a dict at all ("junk").
NoneLen == 0 - 1
Url(c, n, i) == <<c, n, i>>
FullEntry(c, n, i, len) == [url |-> Url(c, n, i), title |-> "t", content |-> len]
NoUrlEntry(len) == [title |-> "t", content |-> len]
BareEntry(c, n, i) == [url |-> Url(c, n, i)]
NoneContentEntry(c, n, i) == [url |-> Url(c, n, i), title |-> "t", content |-> NoneLen]
JunkEntry == [junk |-> TRUE]
IsDict(r) == ~HasKey(r, "junk")

Entries(c, n, i) ==
    { FullEntry(c, n, i, ContentCap), FullEntry(c, n, i, ContentCap + 1),
      NoUrlEntry(ContentCap - 1), BareEntry(c, n, i),
      NoneContentEntry(c, n, i), JunkEntry }

Raises(msg) == [exc |-> msg]
Answers(body) == [body |-> body]

\* the lists of k entries a provider can put under "results"
RECURSIVE ResultLists(_, _, _)
ResultLists(c, n, k) ==
    IF k = 0 THEN { <<>> }
    ELSE { Append(rs, e) : rs \in ResultLists(c, n, k - 1), e \in Entries(c, n, k) }

\* every provider behaviour, for the n-th query of call c
AllOutcomes(c, n) ==
    { Raises(""), Raises("timeout"), Answers([status |-> "ok"]) }
    \cup { Answers([results |-> rs]) :
             rs \in UNION { ResultLists(c, n, k) : k \in 0..MaxResults } }

\* the provider behaviours drawn inside nested runs
RunOutcomes(c, n) ==
    { Raises("timeout"),
      Answers([results |-> <<FullEntry(c, n, 1, ContentCap + 1),
                              NoUrlEntry(ContentCap - 1)>>]) }

Keys == {"", "tvly-key"}              \* os.environ.get("TAVILY_API_KEY")
Limits == {1, DefaultMaxResults}      \* max_results chosen by the caller

\* ----------------------------------------------------------- Query Client
\* tools.py 47-51: one formatted result
FormatResult(r) ==
    [url |-> Get(r, "url", <<>>),
     title |-> Get(r, "title", ""),
     content |-> LET len == Get(r, "content", NoneLen)
                 IN Min(IF len = NoneLen THEN 0 ELSE len, ContentCap)]

\* tools.py 45-51: the loop over the provider's results
RECURSIVE FormatResults(_)
FormatResults(results) ==
    IF results = <<>> THEN <<>>
    ELSE <<FormatResult(Head(results))>> \o FormatResults(Tail(results))

\* variant: the except branch returns an empty list
SearchAndFormatEmpty(max_results, provider) ==
    IF HasKey(provider, "exc") THEN <<>>
    ELSE LET results == Get(provider.body, "results", <<>>) IN
         IF \E i \in 1..Len(results) : ~IsDict(results[i])
         THEN <<>>
         ELSE FormatResults(results)

\* tools.py 35-58: the try block; any exception becomes [{"error": str(e)}]
SearchAndFormat(max_results, provider) ==
    IF HasKey(provider, "exc") THEN << [error |-> provider.exc] >>
    ELSE LET results == Get(provider.body, "results", <<>>) IN
         IF \E i \in 1..Len(results) : ~IsDict(results[i])
         THEN << [error |-> "AttributeError"] >>
         ELSE FormatResults(results)

Exc(type, msg) == [type |-> type, msg |-> msg]
NoExc == Exc("", "")
Raise(exc) == [kind |-> "raise", exc |-> exc, ret |-> <<>>]
Return(ret) == [kind |-> "return", exc |-> NoExc, ret |-> ret]

\* tools.py 19-58
DoInternetSearch(tavily_key, max_results, provider) ==
    IF tavily_key = "" THEN Raise(Exc("RuntimeError", "TAVILY_API_KEY not set"))
    ELSE Return(SearchAndFormat(max_results, provider))

\* ------------------------------------------------------------------ state
VARIABLES
    pc,         \* per call: where the Coordinator's tool thread is in research()
    pool,       \* per call: its ThreadPoolExecutor
    worker,     \* per call: the worker thread of its pool
    future,     \* per call: the Future of the submitted _run_research_isolated
    trace,      \* per call: the search_results list of its nested run
    delivered,  \* per call: the result lists _do_internet_search returned to its run
    result,     \* per call: what future.result() gave its caller (tools.py 173)
    afterFailure, \* per call: whether an earlier call had raised when it was issued
    stream,     \* last tool call on the Coordinator's event stream, and whether
                \* it was emitted to the frontend
    qc          \* last direct internet_search tool call: its inputs and result

vars == <<pc, pool, worker, future, trace, delivered, result, afterFailure,
          stream, qc>>

researchVars == <<pc, pool, worker, future, trace, delivered, result, afterFailure,
                  stream>>

Pending == [state |-> "pending", summary |-> 0, sources |-> <<>>, exc |-> NoExc]
NoFuture == [state |-> "none", summary |-> 0, sources |-> <<>>, exc |-> NoExc]
NoOutcome == [kind |-> "none", summary |-> 0, sources |-> <<>>, exc |-> NoExc]
NoEvent == [name |-> "", origin |-> 0, emitted |-> FALSE]
Coordinator == 0

Init ==
    /\ pc = [c \in Calls |-> "idle"]
    /\ pool = [c \in Calls |-> "none"]
    /\ worker = [c \in Calls |-> "none"]
    /\ future = [c \in Calls |-> NoFuture]
    /\ trace = [c \in Calls |-> <<>>]
    /\ delivered = [c \in Calls |-> <<>>]
    /\ result = [c \in Calls |-> NoOutcome]
    /\ afterFailure = [c \in Calls |-> FALSE]
    /\ stream = NoEvent
    /\ qc = <<>>

\* ------------------------------------------------- the Coordinator's stream
\* main.py 50-58: only the tool calls named in emit_tool_calls are emitted
Forward(name) == name \in emit_tool_calls

\* variant: the worker runs in a copy of the caller's context
InheritedContext(c) == "parent"

\* tools.py 171-172: a pool thread starts with an empty context, so the nested
\* agent's callbacks are not the Coordinator's: "parent" would be inheritance
WorkerContext(c) == "fresh"

\* a tool call made in a thread reaches the Coordinator's stream only through
\* the callbacks of that thread's context
OnStream(name, origin, context, s) ==
    IF context = "parent"
    THEN [name |-> name, origin |-> origin, emitted |-> Forward(name)]
    ELSE s

\* agent.py 76-90: the Coordinator's tools besides research
CoordinatorTools == {"write_todos", "ls"}
\* tools.py 142-147: the nested agent's tools besides internet_search_tracked
NestedBuiltins == {"write_todos"}

CoordinatorAct(a) ==
    /\ stream' = OnStream(a, Coordinator, "parent", stream)
    /\ UNCHANGED <<pc, pool, worker, future, trace, delivered, result, afterFailure, qc>>

\* ------------------------------------------------------- research(): helpers
RECURSIVE SumLen(_, _)
SumLen(f, S) ==
    IF S = {} THEN 0
    ELSE LET c == CHOOSE x \in S : TRUE IN Len(f[c]) + SumLen(f, S \ {c})

\* Query Client invocations made so far, over all nested runs
TotalSearches == SumLen(delivered, Calls)

\* variant: the list is not created per run but left over from an earlier one
StaleTrace(tr, c) ==
    [tr EXCEPT ![c] = IF \E d \in DOMAIN tr : tr[d] # <<>>
                      THEN tr[CHOOSE d \in DOMAIN tr : tr[d] # <<>>]
                      ELSE <<>>]

\* tools.py 107: search_results = [], a new list in every _run_research_isolated
FreshTrace(tr, c) == [tr EXCEPT ![c] = <<>>]

\* variant: one list shared by every run
CaptureShared(tr, c, results) == [d \in DOMAIN tr |-> tr[d] \o results]

\* tools.py 120-122: search_results.extend(results), on the run's own list
Capture(tr, c, results) == [tr EXCEPT ![c] = @ \o results]

\* variant: if r.get("url") and not r.get("error")
IsSourceTruthyUrl(r) == Get(r, "url", <<>>) # <<>> /\ Get(r, "error", "") = ""

\* tools.py 164: if "url" in r and not r.get("error")
IsSource(r) == HasKey(r, "url") /\ Get(r, "error", "") = ""

\* tools.py 158-163
SourceRecord(r) ==
    [url |-> r.url,
     title |-> Get(r, "title", ""),
     content |-> Min(Get(r, "content", 0), ContentCap),
     status |-> "found"]

\* tools.py 157-165: the list comprehension
RECURSIVE FormatSources(_)
FormatSources(search_results) ==
    IF search_results = <<>> THEN <<>>
    ELSE IF IsSource(Head(search_results))
         THEN <<SourceRecord(Head(search_results))>> \o FormatSources(Tail(search_results))
         ELSE FormatSources(Tail(search_results))

\* variant: the caller does not wait for the Future
FutureDoneNoWait(fut) == TRUE

\* tools.py 173: future.result() blocks until the Future holds a result or an exception
FutureDone(fut) == fut.state \in {"value", "exc"}

\* variant: an exception of the run is swallowed and an empty outcome returned
FutureResultSwallow(fut) ==
    [kind |-> "return", summary |-> fut.summary, sources |-> fut.sources, exc |-> NoExc]

\* tools.py 173: future.result() returns the run's value or re-raises its exception
FutureResult(fut) ==
    IF fut.state = "exc"
    THEN [kind |-> "raise", summary |-> 0, sources |-> <<>>, exc |-> fut.exc]
    ELSE [kind |-> "return", summary |-> fut.summary, sources |-> fut.sources,
          exc |-> NoExc]

\* variant: executor.shutdown(wait=False)
JoinedNoWait(w) == TRUE

\* tools.py 171: leaving the with block is executor.shutdown(wait=True), which
\* joins the worker thread, whether the block returned or raised
Joined(w) == w = "exited"

InFlight(c) == pc[c] \in {"blocked", "exiting"}
Completed(c) == pc[c] \in {"returned", "raised"}
LivePool(c) == pool[c] \in {"live", "shutdown"}
Running(c) == worker[c] = "busy"

\* what the caller of research(c) has got back so far
Observed(c) == IF Completed(c) THEN result[c] ELSE NoOutcome

\* ------------------------------------------------------- research(): actions
\* tools.py 96-173: the Coordinator calls research(query): the tool call goes
\* on its stream, a pool is created, the run is submitted (which spawns the
\* worker thread) and the caller blocks in future.result()
Research(c) ==
    /\ pc[c] = "idle"
    /\ pc' = [pc EXCEPT ![c] = "blocked"]
    /\ pool' = [pool EXCEPT ![c] = "live"]
    /\ worker' = [worker EXCEPT ![c] = "ready"]
    /\ future' = [future EXCEPT ![c] = Pending]
    /\ afterFailure' = [afterFailure EXCEPT ![c] = \E d \in Calls : pc[d] = "raised"]
    /\ stream' = OnStream("research", Coordinator, "parent", stream)
    /\ UNCHANGED <<trace, delivered, result, qc>>

\* tools.py 101-107: the worker thread takes the work item and enters
\* _run_research_isolated
WorkerStart(c) ==
    /\ worker[c] = "ready"
    /\ worker' = [worker EXCEPT ![c] = "busy"]
    /\ trace' = FreshTrace(trace, c)
    /\ UNCHANGED <<pc, pool, future, delivered, result, afterFailure, stream, qc>>

\* tools.py 110-122: the nested agent calls internet_search_tracked; a raise of
\* the Query Client leaves through research_agent.invoke (tools.py 150)
TrackedSearch(c) ==
    /\ Running(c)
    /\ TotalSearches < MaxSearches
    /\ \E key \in Keys, max_results \in Limits,
          provider \in RunOutcomes(c, Len(delivered[c]) + 1) :
         LET r == DoInternetSearch(key, max_results, provider)
         IN /\ IF r.kind = "raise"
               THEN /\ future' = [future EXCEPT ![c] = [Pending EXCEPT
                                      !.state = "exc", !.exc = r.exc]]
                    /\ worker' = [worker EXCEPT ![c] = "idle"]
                    /\ UNCHANGED <<trace, delivered>>
               ELSE /\ trace' = Capture(trace, c, r.ret)
                    /\ delivered' = [delivered EXCEPT ![c] = Append(@, r.ret)]
                    /\ UNCHANGED <<future, worker>>
            /\ stream' = OnStream("internet_search_tracked", c, WorkerContext(c), stream)
    /\ UNCHANGED <<pc, pool, result, afterFailure, qc>>

\* tools.py 142-152: the nested agent calls one of its built-in tools
NestedTool(c, a) ==
    /\ Running(c)
    /\ stream' = OnStream(a, c, WorkerContext(c), stream)
    /\ UNCHANGED <<pc, pool, worker, future, trace, delivered, result, afterFailure, qc>>

\* tools.py 150-167: research_agent.invoke returns; summary and sources are
\* assembled and become the Future's result
NestedFinish(c) ==
    /\ Running(c)
    /\ future' = [future EXCEPT ![c] = [Pending EXCEPT
                      !.state = "value", !.summary = c,
                      !.sources = FormatSources(trace[c])]]
    /\ worker' = [worker EXCEPT ![c] = "idle"]
    /\ UNCHANGED <<pc, pool, trace, delivered, result, afterFailure, stream, qc>>

\* tools.py 150: research_agent.invoke raises (model or graph error)
NestedFault(c) ==
    /\ Running(c)
    /\ future' = [future EXCEPT ![c] = [Pending EXCEPT
                      !.state = "exc", !.exc = Exc("APIError", "model call failed")]]
    /\ worker' = [worker EXCEPT ![c] = "idle"]
    /\ UNCHANGED <<pc, pool, trace, delivered, result, afterFailure, stream, qc>>

\* tools.py 173 and the end of the with block: future.result() returns or
\* raises, and executor.shutdown(wait=True) begins
Result(c) ==
    /\ pc[c] = "blocked"
    /\ FutureDone(future[c])
    /\ pc' = [pc EXCEPT ![c] = "exiting"]
    /\ pool' = [pool EXCEPT ![c] = "shutdown"]
    /\ result' = [result EXCEPT ![c] = FutureResult(future[c])]
    /\ UNCHANGED <<worker, future, trace, delivered, afterFailure, stream, qc>>

\* the worker thread of a shut-down pool ends once it has no work
WorkerExit(c) ==
    /\ pool[c] = "shutdown"
    /\ worker[c] = "idle"
    /\ worker' = [worker EXCEPT ![c] = "exited"]
    /\ UNCHANGED <<pc, pool, future, trace, delivered, result, afterFailure, stream, qc>>

\* tools.py 171-176: shutdown has joined the worker; research() returns the
\* result or the exception of future.result() propagates to the caller
ReturnOrRaise(c) ==
    /\ pc[c] = "exiting"
    /\ Joined(worker[c])
    /\ pool' = [pool EXCEPT ![c] = "closed"]
    /\ pc' = [pc EXCEPT ![c] = IF result[c].kind = "raise" THEN "raised" ELSE "returned"]
    /\ UNCHANGED <<worker, future, result, trace, delivered, afterFailure, stream, qc>>

\* --------------------------------------------------- internet_search tool
\* tools.py 61-75: the internet_search tool is _do_internet_search itself
InternetSearch ==
    /\ \E key \in Keys, max_results \in Limits, provider \in AllOutcomes(0, 0) :
         qc' = << [key |-> key, max_results |-> max_results, provider |-> provider,
                   out |-> DoInternetSearch(key, max_results, provider)] >>
    /\ UNCHANGED researchVars

\* ---------------------------------------------------------- specifications
Next ==
    \/ \E a \in CoordinatorTools : CoordinatorAct(a)
    \/ \E c \in Calls : Research(c)
    \/ \E c \in Calls : WorkerStart(c)
    \/ \E c \in Calls : TrackedSearch(c)
    \/ \E c \in Calls, a \in NestedBuiltins : NestedTool(c, a)
    \/ \E c \in Calls : NestedFinish(c)
    \/ \E c \in Calls : NestedFault(c)
    \/ \E c \in Calls : Result(c)
    \/ \E c \in Calls : WorkerExit(c)
    \/ \E c \in Calls : ReturnOrRaise(c)

\* the research tool under concurrent and sequential calls
Spec == Init /\ [][Next]_vars

\* the Query Client as a function of the environment and the provider's behaviour
SpecQC == Init /\ [][InternetSearch]_vars

\* ================================================================== claims

\* ---- C1 -----------------------------------------------------------------
\* C1 as stated: research calls are serialized through one capacity-one
\* worker, so at most one nested run is executing at any time.
C1_Serialized == Cardinality({c \in Calls : Running(c)}) <= 1

\* C1, amended: every call has a capacity-one pool of its own. A nested run
\* executes only on the worker of its own call's live pool while that call is
\* blocked on its Future, there are never more runs executing than
\* MaxWorkers per live pool, and a call completes only after its own run has
\* ended; calls are not queued behind one another.
C1_OwnWorker ==
    /\ \A c \in Calls :
         /\ Running(c) => pc[c] = "blocked" /\ pool[c] = "live"
                          /\ future[c].state = "pending"
         /\ Completed(c) => FutureDone(future[c]) /\ ~Running(c)
    /\ Cardinality({c \in Calls : Running(c)})
         <= MaxWorkers * Cardinality({c \in Calls : pool[c] = "live"})

\* two nested runs executing at the same time, each on its own worker
C1_TwoRunsAtOnce == \E c, d \in Calls : c # d /\ Running(c) /\ Running(d)

\* ---- C2 -----------------------------------------------------------------
\* C2 as stated: when the nested run raises, the caller observes one typed
\* failure ResearchFailed that carries the cause.
C2_TypedFailure ==
    \A c \in Calls : future[c].state = "exc" /\ Completed(c)
                       => Observed(c).exc.type = "ResearchFailed"

\* C2, amended: when the nested run raises, the call raises exactly that
\* exception, unchanged (future.result() re-raises it; nothing catches or
\* wraps it), and no summary or sources are returned.
C2_RawFaultReraised ==
    \A c \in Calls : future[c].state = "exc" /\ Completed(c)
                       => /\ pc[c] = "raised"
                          /\ Observed(c).kind = "raise"
                          /\ Observed(c).exc = future[c].exc
                          /\ Observed(c).exc # NoExc
                          /\ Observed(c).sources = <<>>
                          /\ Observed(c).summary = 0

\* a call has raised after its run had already captured results
C2_RaisedAfterCapture == \E c \in Calls : pc[c] = "raised" /\ trace[c] # <<>>

\* ---- C3 -----------------------------------------------------------------
ProviderFails(provider) ==
    \/ HasKey(provider, "exc")
    \/ /\ HasKey(provider, "body") /\ HasKey(provider.body, "results")
       /\ \E i \in 1..Len(provider.body.results) : HasKey(provider.body.results[i], "junk")

IsErrorMarker(out) ==
    out.kind = "return" /\ Len(out.ret) = 1 /\ HasKey(out.ret[1], "error")

\* C3 as stated: on every failure, missing credentials included, the Query
\* Client returns one element carrying error and raises nothing.
C3_NeverRaises ==
    \A i \in 1..Len(qc) :
        (qc[i].key = "" \/ ProviderFails(qc[i].provider)) => IsErrorMarker(qc[i].out)

\* C3, amended: with TAVILY_API_KEY set, every failure of the provider call or
\* of the formatting of its answer returns one element carrying error and
\* raises nothing; with TAVILY_API_KEY missing the Query Client raises
\* RuntimeError to its caller.
C3_ProviderFailureIsMarker ==
    \A i \in 1..Len(qc) :
        /\ qc[i].key # "" /\ ProviderFails(qc[i].provider) => IsErrorMarker(qc[i].out)
        /\ qc[i].key # "" => qc[i].out.kind = "return"
        /\ qc[i].key = "" => qc[i].out.kind = "raise" /\ qc[i].out.exc.type = "RuntimeError"

\* the provider raised with the key set
C3_ProviderRaised ==
    \E i \in 1..Len(qc) : qc[i].key # "" /\ HasKey(qc[i].provider, "exc")
                          /\ qc[i].out.kind = "return"

\* ---- C4 -----------------------------------------------------------------
\* C4: the trace of every call holds exactly the results the Query Client
\* returned to that call's own nested run, in the order it returned them,
\* however the runs of concurrent calls interleave; nothing of another call's
\* queries is in it.
C4_TracesNotInterleaved ==
    \A c \in Calls :
        /\ trace[c] = Flatten(delivered[c])
        /\ \A i \in 1..Len(trace[c]) :
             HasKey(trace[c][i], "url") /\ trace[c][i].url # <<>>
               => trace[c][i].url[1] = c

\* two runs executing together, each having captured results
C4_BothCaptured ==
    \E c, d \in Calls : /\ c # d /\ Running(c) /\ Running(d)
                        /\ trace[c] # <<>> /\ trace[d] # <<>>

\* ---- C5 -----------------------------------------------------------------
\* a captured result that has a url key and no error set
C5_Valid(r) == "url" \in DOMAIN r /\ ("error" \notin DOMAIN r \/ r.error = "")

\* the sources of a returned call are its captured results without those that
\* carry error or lack the url key, in capture order
RECURSIVE C5_Expected(_)
C5_Expected(rs) ==
    IF rs = <<>> THEN <<>>
    ELSE IF C5_Valid(Head(rs))
         THEN << [url |-> Head(rs).url, title |-> Head(rs).title,
                  content |-> Head(rs).content, status |-> "found"] >>
              \o C5_Expected(Tail(rs))
         ELSE C5_Expected(Tail(rs))

C6_AtMostLimit ==
    \A i \in 1..Len(qc) :
        qc[i].max_results >= 1 /\ qc[i].out.kind = "return" =>
            /\ Len(qc[i].out.ret) <= qc[i].max_results
            /\ \A j \in 1..Len(qc[i].out.ret) :
                 HasKey(qc[i].out.ret[j], "content") => qc[i].out.ret[j].content <= 3000

\* ---- C7 -----------------------------------------------------------------
C7_AllowList == {"research", "write_todos", "write_file", "read_file", "edit_file"}

\* C7: a tool call is emitted to the frontend only if its name is in the
\* allow-list, and no tool call of a nested run is on the Coordinator's
\* stream at all, so none of them is ever emitted.
C7_OnlyAllowListedForwarded ==
    /\ stream.emitted => stream.name \in C7_AllowList
    /\ stream # NoEvent => stream.origin = Coordinator

\* a Coordinator tool call outside the allow-list was dropped, after nested
\* runs had made searches
C7_DroppedWhileNestedRan ==
    /\ stream.name = "ls" /\ ~stream.emitted
    /\ \E c \in Calls : delivered[c] # <<>>

\* ---- C8 -----------------------------------------------------------------
\* C8: the caller of research gets nothing before the call completes, and
\* what it then gets is the whole outcome of a finished nested run: the
\* Future is done and the sources are those of every result the run captured.
\* So whenever a later step's nested run begins, every completed step's
\* outcome is already whole.
C8_Synchronous ==
    \A c \in Calls :
        /\ ~Completed(c) => Observed(c) = NoOutcome
        /\ pc[c] \in {"exiting", "returned", "raised"} => FutureDone(future[c])
        /\ pc[c] = "returned" =>
             /\ future[c].state = "value"
             /\ Observed(c).kind = "return"
             /\ Observed(c).summary = c
             /\ Len(Observed(c).sources)
                  = Cardinality({i \in 1..Len(trace[c]) : HasKey(trace[c][i], "url")})

\* step d has returned its sources and step c is submitted, its nested run
\* not yet begun
C8_NextStepAboutToBegin ==
    \E c, d \in Calls :
        /\ pc[d] = "returned" /\ Observed(d).sources # <<>>
        /\ worker[c] = "ready"

\* ---- C9 -----------------------------------------------------------------
\* C9: every nested run starts from an empty list of its own, whatever
\* earlier calls captured and however they ended; the sources a call returns
\* come from that call's queries only.
C9_FreshTracePerCall ==
    \A c \in Calls :
        /\ Running(c) /\ delivered[c] = <<>> => trace[c] = <<>>
        /\ pc[c] = "returned" =>
             /\ Len(Observed(c).sources) <= Len(Flatten(delivered[c]))
             /\ \A i \in 1..Len(Observed(c).sources) :
                  Observed(c).sources[i].url # <<>> => Observed(c).sources[i].url[1] = c

\* a call issued after another had raised with results in its trace has
\* returned sources of its own
C9_ReturnedAfterFailure ==
    \E c, d \in Calls :
        /\ afterFailure[c] /\ pc[c] = "returned" /\ Observed(c).sources # <<>>
        /\ pc[d] = "raised" /\ trace[d] # <<>>

====
